---- MODULE Spec2Model ----
(***************************************************************************)
(* tech-calendar, events pipeline: the reconciliation of a looked-up       *)
(* occurrence with the stored one (_merge_occurrence), the occurrences     *)
(* table behind EventRepository, and the run loop of events/runner.py.     *)
(*                                                                         *)
(* Dates are day numbers: year * DaysPerYear + day, day in                 *)
(* 0 .. DaysPerYear-1, so that date comparison is integer comparison and   *)
(* date.year is integer division.  Python's None is NoDate for a date and  *)
(* None for a string; an optional record is a sequence of length 0 or 1.   *)
(***************************************************************************)
EXTENDS Integers, Sequences, FiniteSets, TLC

\* ---------------------------------------------------------------- bounds
DaysPerYear == 2
BaseYear == 2026
MaxAdvance == 2
MaxEvents == 3
MaxAllowed == 2

\* ------------------------------------------------------ program constants
UID_VERSION == "v1"
LOOKUP_YEAR_MIN == 1970
LOOKUP_YEAR_MAX == 2100
RETENTION_YEARS_MIN == 1

\* ------------------------------------------------------------ Python values
None == "None"
NoDate == 0 - 1
Absent == << >>
Some(x) == << x >>

Truthy(s) == s # None /\ s # ""
TruthyDate(d) == d # NoDate
Or(a, b) == IF Truthy(a) THEN a ELSE b

\* Mutant: a missing date is not filled from the stored record.
OrDateNoFallback(a, b) == a

OrDate(a, b) == IF TruthyDate(a) THEN a ELSE b

MkDate(y, d) == y * DaysPerYear + d
YearOf(date) == date \div DaysPerYear
DayOf(date) == date % DaysPerYear
DatesOfYear(y) == { MkDate(y, d) : d \in 0 .. (DaysPerYear - 1) }

\* ------------------------------------------------------------------ series
SeriesIds == { "S1", "S2" }
Series(id) == [ id |-> id, name |-> IF id = "S1" THEN "Widget Conf" ELSE "Gadget Days" ]

\* ------------------------------------------------- LookupResult (pydantic)
\* str(HttpUrl): the URL object is a record, its text a string.
HttpUrl(text) == [ url |-> text ]
NoUrl == [ url |-> None ]
UrlStr(u) == u.url
UrlTruthy(u) == u # NoUrl

_clean_strings(value) == IF value = None THEN None
                         ELSE IF value = " " THEN None
                         ELSE value

\* Mutant: the year of the start date is not compared with the lookup's year.
_validate_datesAnyYear(raw) ==
    IF raw.start_date # NoDate /\ raw.end_date # NoDate /\ raw.start_date > raw.end_date
        THEN [ ok |-> FALSE, error |-> "start_date must be on or before end_date" ]
    ELSE IF raw.start_date = NoDate /\ raw.end_date # NoDate
        THEN [ ok |-> FALSE, error |-> "end_date requires start_date" ]
    ELSE IF raw.start_date # NoDate /\ raw.end_date = NoDate
        THEN [ ok |-> TRUE, value |-> [ raw EXCEPT !.end_date = raw.start_date ] ]
    ELSE [ ok |-> TRUE, value |-> raw ]

\* Mutant: the order of the two dates is not checked.
_validate_datesUnordered(raw) ==
    IF raw.start_date # NoDate /\ raw.year # YearOf(raw.start_date)
        THEN [ ok |-> FALSE, error |-> "year must match start_date" ]
    ELSE IF raw.start_date = NoDate /\ raw.end_date # NoDate
        THEN [ ok |-> FALSE, error |-> "end_date requires start_date" ]
    ELSE IF raw.start_date # NoDate /\ raw.end_date = NoDate
        THEN [ ok |-> TRUE, value |-> [ raw EXCEPT !.end_date = raw.start_date ] ]
    ELSE [ ok |-> TRUE, value |-> raw ]

\* The model validator: the outcome is a failure or the normalised lookup.
_validate_dates(raw) ==
    IF raw.start_date # NoDate /\ raw.end_date # NoDate /\ raw.start_date > raw.end_date
        THEN [ ok |-> FALSE, error |-> "start_date must be on or before end_date" ]
    ELSE IF raw.start_date # NoDate /\ raw.year # YearOf(raw.start_date)
        THEN [ ok |-> FALSE, error |-> "year must match start_date" ]
    ELSE IF raw.start_date = NoDate /\ raw.end_date # NoDate
        THEN [ ok |-> FALSE, error |-> "end_date requires start_date" ]
    ELSE IF raw.start_date # NoDate /\ raw.end_date = NoDate
        THEN [ ok |-> TRUE, value |-> [ raw EXCEPT !.end_date = raw.start_date ] ]
    ELSE [ ok |-> TRUE, value |-> raw ]

LookupResult(raw) ==
    IF raw.year < LOOKUP_YEAR_MIN \/ raw.year > LOOKUP_YEAR_MAX
        THEN [ ok |-> FALSE, error |-> "year out of range" ]
    ELSE _validate_dates([ raw EXCEPT !.location = _clean_strings(raw.location),
                                      !.timezone = _clean_strings(raw.timezone) ])

\* ------------------------------------------------------ Occurrence.is_past
\* Mutant: an occurrence that ends on the reference date counts as past.
is_pastInclusive(occ, today) ==
    IF TruthyDate(occ.end_date) THEN occ.end_date <= today
    ELSE IF TruthyDate(occ.start_date) THEN occ.start_date <= today
    ELSE FALSE

is_past(occ, today) ==
    IF TruthyDate(occ.end_date) THEN occ.end_date < today
    ELSE IF TruthyDate(occ.start_date) THEN occ.start_date < today
    ELSE FALSE

\* ------------------------------------------------------- _merge_occurrence
\* The dataclass Occurrence built from a lookup (runner.py, incoming).
IncomingOccurrence(series, lookup) ==
    [ series |-> series,
      year |-> lookup.year,
      start_date |-> lookup.start_date,
      end_date |-> lookup.end_date,
      location |-> lookup.location,
      timezone |-> lookup.timezone,
      confident |-> lookup.confident,
      confirmed |-> lookup.confirmed,
      announcement_url |-> IF UrlTruthy(lookup.announcement_url)
                           THEN UrlStr(lookup.announcement_url) ELSE None,
      included |-> FALSE ]

\* The dataclass Occurrence built from a stored record (existing_occurrence,
\* and the projection of _collect_for_calendar).
OccurrenceOf(series, record) ==
    [ series |-> series,
      year |-> record.year,
      start_date |-> record.start_date,
      end_date |-> record.end_date,
      location |-> record.location,
      timezone |-> record.timezone,
      confident |-> record.confident,
      confirmed |-> record.confirmed,
      announcement_url |-> record.announcement_url,
      included |-> record.included ]

Raise(kind) == [ raised |-> TRUE, error |-> kind ]
Return(v) == [ raised |-> FALSE, value |-> v ]

\* existing is Absent or Some(StoredOccurrence).
ExistingField(existing, f) == IF existing # Absent THEN existing[1][f] ELSE None
ExistingDate(existing, f) == IF existing # Absent THEN existing[1][f] ELSE NoDate

SkipPast(series, lookup, existing, reference_date) ==
    /\ existing # Absent
    /\ is_past(OccurrenceOf(series, existing[1]), reference_date)
    /\ is_past(IncomingOccurrence(series, lookup), reference_date)

\* Mutant: the prior inclusion is not kept.
MergedIncludedNoGuard(lookup, existing) == lookup.confident \/ lookup.confirmed

\* Mutant: whatever is stored already counts as included.
MergedIncludedOnExisting(lookup, existing) ==
    lookup.confident \/ lookup.confirmed \/ existing # Absent

\* Mutant: a lookup includes a record only when one is stored already.
MergedIncludedOnSecondSight(lookup, existing) ==
    LET included == existing # Absent /\ (lookup.confident \/ lookup.confirmed)
    IN  IF existing # Absent /\ existing[1].included /\ ~included THEN TRUE ELSE included

\* Mutant: inclusion asks for both flags.
MergedIncludedBoth(lookup, existing) ==
    LET included == lookup.confident /\ lookup.confirmed
    IN  IF existing # Absent /\ existing[1].included /\ ~included THEN TRUE ELSE included

MergedIncluded(lookup, existing) ==
    LET included == lookup.confident \/ lookup.confirmed
    IN  IF existing # Absent /\ existing[1].included /\ ~included THEN TRUE ELSE included

\* Mutant: the comparison is inverted.
YearMismatchInverted(lookup, target_year) == lookup.year = target_year

YearMismatch(lookup, target_year) == lookup.year # target_year

\* Mutant: a flag once stored as true stays true.
MergedFlagSticky(lookup, existing, f) ==
    lookup[f] \/ (existing # Absent /\ existing[1][f])

\* confident=lookup.confident, confirmed=lookup.confirmed (lines 160-161).
MergedFlag(lookup, existing, f) == lookup[f]

_merge_occurrence(series, lookup, existing, reference_date, target_year) ==
    IF YearMismatch(lookup, target_year) THEN Raise("OrchestrationError")
    ELSE IF SkipPast(series, lookup, existing, reference_date) THEN Return(existing[1])
    ELSE Return(
        [ series_id |-> series.id,
          year |-> lookup.year,
          start_date |-> OrDate(lookup.start_date, ExistingDate(existing, "start_date")),
          end_date |-> OrDate(lookup.end_date, ExistingDate(existing, "end_date")),
          location |-> Or(lookup.location, ExistingField(existing, "location")),
          timezone |-> Or(lookup.timezone, ExistingField(existing, "timezone")),
          confident |-> MergedFlag(lookup, existing, "confident"),
          confirmed |-> MergedFlag(lookup, existing, "confirmed"),
          announcement_url |-> IF UrlTruthy(lookup.announcement_url)
                               THEN UrlStr(lookup.announcement_url)
                               ELSE ExistingField(existing, "announcement_url"),
          included |-> MergedIncluded(lookup, existing) ])

\* ------------------------------------------------------- EventRepository
\* The occurrences table is a set of rows.  A row holds what save_occurrence
\* binds: ISO text for the dates, 0/1 for the flags.  The created_at and
\* updated_at columns are written and never read, and are left out.
NULL == << >>
_to_iso(value) == IF value = NoDate THEN NULL ELSE << YearOf(value), DayOf(value) >>
_parse_date(value) == IF value = NULL THEN NoDate ELSE MkDate(value[1], value[2])
int(b) == IF b THEN 1 ELSE 0
bool(n) == n # 0

RowOf(occurrence) ==
    [ series_id |-> occurrence.series_id,
      year |-> occurrence.year,
      start_date |-> _to_iso(occurrence.start_date),
      end_date |-> _to_iso(occurrence.end_date),
      location |-> occurrence.location,
      timezone |-> occurrence.timezone,
      confident |-> int(occurrence.confident),
      confirmed |-> int(occurrence.confirmed),
      announcement_url |-> occurrence.announcement_url,
      included |-> int(occurrence.included) ]

_row_to_occurrence(row) ==
    [ series_id |-> row.series_id,
      year |-> row.year,
      start_date |-> _parse_date(row.start_date),
      end_date |-> _parse_date(row.end_date),
      location |-> row.location,
      timezone |-> row.timezone,
      confident |-> bool(row.confident),
      confirmed |-> bool(row.confirmed),
      announcement_url |-> row.announcement_url,
      included |-> bool(row.included) ]

SameKey(row, series_id, year) == row.series_id = series_id /\ row.year = year

\* Mutant: the upsert also prunes the rows of earlier years.
save_occurrencePruning(table, occurrence) ==
    { r \in table : r.year >= occurrence.year /\ ~SameKey(r, occurrence.series_id, occurrence.year) }
        \cup { RowOf(occurrence) }

\* Mutant: a plain INSERT, without the conflict clause and without the key.
save_occurrenceInsert(table, occurrence) == table \cup { RowOf(occurrence) }

\* INSERT ... ON CONFLICT(series_id, year) DO UPDATE SET <every other column>.
save_occurrence(table, occurrence) ==
    LET new == RowOf(occurrence)
        conflict == { r \in table : SameKey(r, new.series_id, new.year) }
    IN  IF conflict = {} THEN table \cup { new }
        ELSE { IF r \in conflict
               THEN [ r EXCEPT !.start_date = new.start_date,
                               !.end_date = new.end_date,
                               !.location = new.location,
                               !.timezone = new.timezone,
                               !.confident = new.confident,
                               !.confirmed = new.confirmed,
                               !.announcement_url = new.announcement_url,
                               !.included = new.included ]
               ELSE r : r \in table }

\* Mutant: the read does not see the row.
fetch_occurrenceBlind(table, series_id, year) == Absent

\* SELECT ... WHERE series_id = ? AND year = ?; fetchone().
fetch_occurrence(table, series_id, year) ==
    LET found == { r \in table : SameKey(r, series_id, year) }
    IN  IF found = {} THEN Absent
        ELSE Some(_row_to_occurrence(CHOOSE r \in found : TRUE))

\* Mutant: the threshold year itself is left out.
list_occurrences_for_calendarStrict(table, current_year, years) ==
    { _row_to_occurrence(r) :
        r \in { x \in table : x.year > current_year - years /\ x.included = 1 } }

\* SELECT ... WHERE year >= ? AND included = 1 (row order is unspecified:
\* the result is a set).
list_occurrences_for_calendar(table, current_year, years) ==
    LET threshold_year == current_year - years
    IN  { _row_to_occurrence(r) :
            r \in { x \in table : x.year >= threshold_year /\ x.included = 1 } }

\* Mutant: a record without dates is projected as well.
_collect_for_calendarUndated(table, series_ids, current_year, years) ==
    LET stored == list_occurrences_for_calendar(table, current_year, years)
    IN  { OccurrenceOf(Series(record.series_id), record) :
            record \in { x \in stored : x.series_id \in series_ids } }

\* series_map is the set of configured series ids (the keys of the dict).
_collect_for_calendar(table, series_ids, current_year, years) ==
    LET stored == list_occurrences_for_calendar(table, current_year, years)
    IN  { OccurrenceOf(Series(record.series_id), record) :
            record \in { x \in stored :
                           /\ x.series_id \in series_ids
                           /\ TruthyDate(x.start_date)
                           /\ TruthyDate(x.end_date) } }

\* occurrence_uid: the digest is injective in its input, the tuple stands for it.
occurrence_uid(series_id, year, relcalid) ==
    << UID_VERSION, << UID_VERSION, "events", series_id, year >>, relcalid >>

\* ================================================================= state
VARIABLES
    tables,                \* names of the tables of the SQLite file
    occurrences,           \* rows of the occurrences table
    pc,                    \* "idle" (no run), "loop" (run(), lines 32-50), "render"
    series_map,            \* this run's configured series ids, in order
    retention_years,       \* config.events.calendar.retention_years
    reference_date,        \* today
    pos,                   \* index of the (series, target_year) pair in the loop
    last,                  \* what the last iteration did and logged
    attempts,              \* per (series, year): iterations of this run
    stored_occurrences,    \* local of _collect_for_calendar
    calendar_occurrences,  \* result of _collect_for_calendar
    ics,                   \* the calendar file: Absent or Some(events)
    exit_code,             \* of the last finished run; Running during a run
    published,             \* keys that appeared in a projected calendar
    h                      \* per specification: the call, component or history studied

vars == << tables, occurrences, pc, series_map, retention_years, reference_date, pos,
           last, attempts, stored_occurrences, calendar_occurrences, ics, exit_code,
           published, h >>

runVars == << tables, occurrences, pc, series_map, retention_years, reference_date, pos,
              last, attempts, stored_occurrences, calendar_occurrences, ics, exit_code,
              published >>

Running == 0 - 1
NoYear == 0 - 1
Years == BaseYear .. (BaseYear + MaxAdvance + 1)
Keys == SeriesIds \X Years
KeysOf(table) == { << r.series_id, r.year >> : r \in table }

\* ----------------------------------------------------------- the agent
\* What agent.run_sync hands back for (series, year): an error, or an output
\* that pydantic validates into a LookupResult.
RawLookup(y, s, e, loc, tz, cf, cm, url) ==
    [ year |-> y, start_date |-> s, end_date |-> e, location |-> loc, timezone |-> tz,
      confident |-> cf, confirmed |-> cm, announcement_url |-> url ]

Unknown(y) == RawLookup(y, NoDate, NoDate, None, None, FALSE, FALSE, NoUrl)
Announced(y) == RawLookup(y, MkDate(y, 0), NoDate, "Berlin", None, TRUE, FALSE, NoUrl)
Backwards(y) == RawLookup(y, MkDate(y, 1), MkDate(y, 0), None, None, TRUE, FALSE, NoUrl)
Rumoured(y) == RawLookup(y, NoDate, NoDate, None, None, TRUE, FALSE, NoUrl)

\* rumours: whether the agent also answers confident without dates.
AgentOutputs(series_id, y, rumours) ==
    IF series_id = "S1"
    THEN { Unknown(y), Announced(y), Announced(y + 1), Backwards(y) }
            \cup (IF rumours THEN { Rumoured(y) } ELSE {})
    ELSE { Announced(y) }

AgentError == [ failed |-> TRUE ]
AgentOutput(raw) == [ failed |-> FALSE, output |-> raw ]
AgentResults(series_id, y, rumours) ==
    { AgentError } \cup { AgentOutput(raw) : raw \in AgentOutputs(series_id, y, rumours) }

\* Researcher.fetch: any failure, a rejected output included, is an LLMError.
fetch(agent_result) ==
    IF agent_result.failed THEN Raise("LLMError")
    ELSE LET parsed == LookupResult(agent_result.output)
         IN  IF parsed.ok THEN Return(parsed.value) ELSE Raise("LLMError")

\* ------------------------------------------------------------- the loop
NPairs == 2 * Len(series_map)
PairSeries(p) == series_map[((p - 1) \div 2) + 1]
PairYear(p) == YearOf(reference_date) + ((p - 1) % 2)

\* A sqlite3.Error: the table is missing, or the environment faults this call.
Faults == { "none", "read", "write" }
ReadFails(fault) == "occurrences" \notin tables \/ fault = "read"
WriteFails(fault) == "occurrences" \notin tables \/ fault = "write"

\* faulted: the environment made a call of this iteration fail.
LogRecord(series_id, year, lookup_year, faulted, error) ==
    [ series_id |-> series_id, year |-> year, lookup_year |-> lookup_year,
      faulted |-> faulted, error |-> error ]
NoLog == LogRecord("", NoYear, NoYear, FALSE, "")

\* The body of one iteration (runner.py 34-50): the table it leaves and the
\* record it logs.
Iteration(table, series_id, target_year, today, agent_result, fault) ==
    LET lookup == fetch(agent_result)
        stored == fetch_occurrence(table, series_id, target_year)
        merged == _merge_occurrence(Series(series_id), lookup.value, stored,
                                    today, target_year)
        log(ly, faulted, error) == LogRecord(series_id, target_year, ly, faulted, error)
    IN  IF lookup.raised
            THEN [ table |-> table, log |-> log(NoYear, FALSE, lookup.error) ]
        ELSE IF ReadFails(fault)
            THEN [ table |-> table,
                   log |-> log(lookup.value.year, fault = "read", "StorageError") ]
        ELSE IF merged.raised
            THEN [ table |-> table, log |-> log(lookup.value.year, FALSE, merged.error) ]
        ELSE IF WriteFails(fault)
            THEN [ table |-> table,
                   log |-> log(lookup.value.year, fault = "write", "StorageError") ]
        ELSE [ table |-> save_occurrence(table, merged.value),
               log |-> log(lookup.value.year, FALSE, "") ]

\* ---------------------------------------------------------------- run()
RetentionChoices == { RETENTION_YEARS_MIN, RETENTION_YEARS_MIN + 1 }
\* Spec: one or two series, every run within BaseYear.
Configs == { << "S1" >>, << "S1", "S2" >> }
RunDates == DatesOfYear(BaseYear)
\* SpecYears: one series, runs on the last day of the years
\* BaseYear .. BaseYear + MaxAdvance.
ConfigsYears == { << "S1" >> }
RunDatesYears == { MkDate(y, DaysPerYear - 1) : y \in BaseYear .. (BaseYear + MaxAdvance) }
NoAttempts == [ k \in Keys |-> 0 ]
NoCall == [ phase |-> "none" ]

\* Database(db_path): _ensure_schema creates the earnings table, and no other.
_ensure_schema(names) == names \cup { "earnings" }

\* run(), lines 24-30: the reference date, the series map, the database.
Begin(configs, dates) ==
    /\ pc = "idle"
    /\ \E config \in configs, today \in dates :
        /\ today >= reference_date
        /\ series_map' = config
        /\ reference_date' = today
    /\ tables' = _ensure_schema(tables)
    /\ pc' = "loop"
    /\ pos' = 1
    /\ last' = NoLog
    /\ attempts' = NoAttempts
    /\ stored_occurrences' = {}
    /\ calendar_occurrences' = {}
    /\ exit_code' = Running
    /\ UNCHANGED << occurrences, retention_years, ics, published >>

StartRun(configs, dates) == Begin(configs, dates) /\ UNCHANGED h

\* Mutant: an iteration that fails leaves the inner loop (break), and the
\* series' remaining year is not processed.
NextPairBreaks(p, error) ==
    IF error # "" /\ p % 2 = 1 THEN p + 2 ELSE p + 1

\* except Exception: ... continue.  The pair that follows pair p.
NextPair(p, error) == p + 1

\* One iteration of the loop, lines 32-50: whatever it raises is logged and
\* the loop goes on with the next pair.
Body(agent_result, fault) ==
    /\ LET it == Iteration(occurrences, PairSeries(pos), PairYear(pos),
                            reference_date, agent_result, fault)
       IN  /\ occurrences' = it.table
           /\ last' = it.log
           /\ pos' = NextPair(pos, it.log.error)
    /\ attempts' = [ attempts EXCEPT ![<< PairSeries(pos), PairYear(pos) >>] = @ + 1 ]
    /\ UNCHANGED << tables, pc, series_map, retention_years, reference_date,
                    stored_occurrences, calendar_occurrences, ics, exit_code, published >>

ProcessPair(rumours) ==
    /\ pc = "loop"
    /\ pos <= NPairs
    /\ \E agent_result \in AgentResults(PairSeries(pos), PairYear(pos), rumours),
          fault \in Faults :
        Body(agent_result, fault)
    /\ UNCHANGED h

OccurrenceKeys(occs) == { << o.series.id, o.year >> : o \in occs }
SeriesSet == { series_map[i] : i \in 1 .. Len(series_map) }

\* Mutant: every exception ends the process with status 1.
_execute_commandFlat(error) == IF error = "" THEN 0 ELSE 1

\* cli.py: the exit status for what run() raised ("" when it returned).
_execute_command(error) ==
    IF error = "" THEN 0
    ELSE IF error \in { "ConfigError", "StorageError", "OrchestrationError" } THEN 2
    ELSE 1

\* Lines 52-54: _collect_for_calendar, with the retention window the
\* configuration gives; a StorageError leaves run() and _execute_command
\* exits with 2.  history: whether the history variable published is kept.
Collect(history) ==
    /\ pc = "loop"
    /\ pos > NPairs
    /\ \E fault \in { "none", "read" }, years \in RetentionChoices :
        IF ReadFails(fault)
           THEN /\ pc' = "idle"
                /\ exit_code' = _execute_command("StorageError")
                /\ series_map' = << >>
                /\ pos' = 1
                /\ last' = NoLog
                /\ attempts' = NoAttempts
                /\ UNCHANGED << retention_years, stored_occurrences,
                                calendar_occurrences, published >>
           ELSE /\ pc' = "render"
                /\ retention_years' = years
                /\ stored_occurrences' =
                       list_occurrences_for_calendar(occurrences, YearOf(reference_date),
                                                     years)
                /\ calendar_occurrences' =
                       _collect_for_calendar(occurrences, SeriesSet,
                                             YearOf(reference_date), years)
                /\ published' = IF history
                                THEN published \cup OccurrenceKeys(calendar_occurrences')
                                ELSE published
                /\ UNCHANGED << exit_code, series_map, pos, last, attempts >>
    /\ UNCHANGED << tables, occurrences, reference_date, ics, h >>

\* Occurrence.description(): the lines of the text, as a tuple.
description(occ) ==
    << occ.series.name, occ.year, occ.confirmed, occ.confident,
       IF Truthy(occ.location) THEN occ.location ELSE "",
       IF Truthy(occ.timezone) THEN occ.timezone ELSE "",
       IF Truthy(occ.announcement_url) THEN occ.announcement_url ELSE "" >>

\* Mutant: the UID is computed over the occurrence's flags as well.
EventOfFlagged(occ, relcalid) ==
    [ uid |-> << UID_VERSION,
                 << UID_VERSION, "events", occ.series.id, occ.year, occ.confident >>,
                 relcalid >>,
      name |-> << occ.series.name, occ.year >>,
      begin |-> occ.start_date,
      end |-> occ.end_date,
      description |-> description(occ) ]

\* The event built for one occurrence (lines 64-70).
EventOf(occ, relcalid) ==
    [ uid |-> occurrence_uid(occ.series.id, occ.year, relcalid),
      name |-> << occ.series.name, occ.year >>,
      begin |-> occ.start_date,
      end |-> occ.end_date,
      description |-> description(occ) ]

\* config.events.calendar.relcalid: the default, or the operator's own.
RELCALID == "tech.calendar.events"
Relcalids == { RELCALID, "conferences.example.org" }

\* write_text_file logs file_write_error before it re-raises.
FileWriteError == LogRecord("", NoYear, NoYear, FALSE, "file_write_error")

\* Lines 56-74: build_and_write_calendar.  An exception while the calendar
\* is built or serialized leaves the file as it was; an OSError of
\* write_text_file leaves it as it was or truncated; either way
\* _execute_command exits with 1.  run() returns and its locals are gone.
\* The file is written and never read: file says whether its content is
\* recorded.
Render(file) ==
    /\ pc = "render"
    /\ \E outcome \in { "", "ValueError", "OSError" }, relcalid \in Relcalids,
          truncated \in BOOLEAN :
        /\ ics' = IF ~file THEN ics
                  ELSE IF outcome = ""
                      THEN Some({ EventOf(occ, relcalid) : occ \in calendar_occurrences })
                  ELSE IF outcome = "OSError" /\ truncated THEN Some({})
                  ELSE ics
        /\ exit_code' = _execute_command(outcome)
        /\ last' = IF outcome = "OSError" THEN FileWriteError ELSE NoLog
    /\ pc' = "idle"
    /\ series_map' = << >>
    /\ retention_years' = RETENTION_YEARS_MIN
    /\ pos' = 1
    /\ attempts' = NoAttempts
    /\ stored_occurrences' = {}
    /\ calendar_occurrences' = {}
    /\ UNCHANGED << tables, occurrences, reference_date, published, h >>

\* The database file is new, or it comes from a deployment whose schema has
\* the occurrences table.
InitRun ==
    /\ tables \in { {}, { "earnings", "occurrences" } }
    /\ occurrences = {}
    /\ pc = "idle"
    /\ series_map = << >>
    /\ retention_years = RETENTION_YEARS_MIN
    /\ reference_date = MkDate(BaseYear, 0)
    /\ pos = 1
    /\ last = NoLog
    /\ attempts = NoAttempts
    /\ stored_occurrences = {}
    /\ calendar_occurrences = {}
    /\ ics = Absent
    /\ exit_code = 0
    /\ published = {}

Init == InitRun /\ h = NoCall

Next ==
    StartRun(Configs, RunDates) \/ ProcessPair(TRUE) \/ Collect(FALSE) \/ Render(TRUE)

Spec == Init /\ [][Next]_vars

NextYears ==
    StartRun(ConfigsYears, RunDatesYears) \/ ProcessPair(FALSE) \/ Collect(TRUE)
        \/ Render(FALSE)

SpecYears == Init /\ [][NextYears]_vars

\* ------------------------------------------------- the run, with a record
\* The run with history kept in h: the table as the run found it, the keys
\* for which a lookup has arrived confident or confirmed, and the lookup of
\* the last iteration.
Recorded(before, vouched, lookup) ==
    [ phase |-> "run", before |-> before, vouched |-> vouched, lookup |-> lookup ]
NoLookup == Raise("")
Vouches(lookup) == ~lookup.raised /\ (lookup.value.confident \/ lookup.value.confirmed)

InitRecorded == InitRun /\ h = Recorded({}, {}, NoLookup)

StartRunRecorded ==
    /\ Begin(Configs, RunDates)
    /\ h' = Recorded(occurrences, h.vouched, NoLookup)

ProcessPairRecorded ==
    /\ pc = "loop"
    /\ pos <= NPairs
    /\ \E agent_result \in AgentResults(PairSeries(pos), PairYear(pos), TRUE),
          fault \in Faults :
        /\ Body(agent_result, fault)
        /\ h' = Recorded(h.before,
                         IF Vouches(fetch(agent_result))
                         THEN h.vouched \cup { << PairSeries(pos), PairYear(pos) >> }
                         ELSE h.vouched,
                         fetch(agent_result))

NextRecorded ==
    StartRunRecorded \/ ProcessPairRecorded \/ Collect(FALSE) \/ Render(FALSE)

SpecRecorded == InitRecorded /\ [][NextRecorded]_vars

\* ------------------------------------- _merge_occurrence, called directly
\* Every output the agent can hand back for year y, within the bounds; the
\* lookups are those LookupResult accepts.
RawLookups(y) ==
    [ year : { y },
      start_date : { NoDate } \cup DatesOfYear(y) \cup { MkDate(y + 1, 0) },
      end_date : { NoDate } \cup DatesOfYear(y) \cup { MkDate(y + 1, 0) },
      location : { None, " ", "Berlin" },
      timezone : { None, "Europe/Berlin" },
      confident : BOOLEAN,
      confirmed : BOOLEAN,
      announcement_url : { NoUrl, HttpUrl("https://new.example/") } ]

Lookups(y) == { LookupResult(raw).value : raw \in { r \in RawLookups(y) : LookupResult(r).ok } }

\* Answers for the year after the one asked for.
WrongYearLookups(y) ==
    { l \in Lookups(y + 1) :
        l.location = None /\ l.timezone = None /\ l.announcement_url = NoUrl }

\* The records fetch_occurrence(series_id, y) can return: the key is the one
\* asked for, the dates are those of an accepted lookup of that year.
StoredDates(y) ==
    { << NoDate, NoDate >> } \cup
    { << s, e >> \in DatesOfYear(y) \X (DatesOfYear(y) \cup { MkDate(y + 1, 0) }) : s <= e }

StoredRecords(series_id, y) ==
    { [ series_id |-> series_id, year |-> y,
        start_date |-> d[1], end_date |-> d[2],
        location |-> loc, timezone |-> tz,
        confident |-> cf, confirmed |-> cm,
        announcement_url |-> url, included |-> inc ] :
      d \in StoredDates(y), loc \in { None, "Lisbon" }, tz \in { None, "Europe/Lisbon" },
      cf \in BOOLEAN, cm \in BOOLEAN, url \in { None, "https://old.example/" },
      inc \in BOOLEAN }

\* run() calls it with target_year in { today.year, today.year + 1 } and with
\* what fetch_occurrence(series.id, target_year) returned.
Call(lookup, existing, today, y) ==
    [ phase |-> "called", series_id |-> "S1", lookup |-> lookup, existing |-> existing,
      reference_date |-> today, target_year |-> y, result |-> Absent, again |-> Absent ]

InitMerge ==
    /\ tables = {}
    /\ occurrences = {}
    /\ pc = "idle"
    /\ series_map = << >>
    /\ retention_years = RETENTION_YEARS_MIN
    /\ reference_date = MkDate(BaseYear, 0)
    /\ pos = 1
    /\ last = NoLog
    /\ attempts = NoAttempts
    /\ stored_occurrences = {}
    /\ calendar_occurrences = {}
    /\ ics = Absent
    /\ exit_code = 0
    /\ published = {}
    /\ \E today \in DatesOfYear(BaseYear), y \in { BaseYear, BaseYear + 1 } :
         \E lookup \in Lookups(y) \cup WrongYearLookups(y),
            existing \in { Absent } \cup { Some(r) : r \in StoredRecords("S1", y) } :
              h = Call(lookup, existing, today, y)

Reconcile ==
    /\ h.phase = "called"
    /\ h' = [ h EXCEPT !.phase = "returned",
                       !.result = Some(_merge_occurrence(Series(h.series_id), h.lookup,
                                                         h.existing, h.reference_date,
                                                         h.target_year)) ]
    /\ UNCHANGED runVars

\* Mutant: the inclusion computed by the first call is kept in a module-level
\* name and latches for the calls that follow.
ReconcileAgainLatched ==
    /\ h.phase = "returned"
    /\ LET r == _merge_occurrence(Series(h.series_id), h.lookup, h.existing,
                                  h.reference_date, h.target_year)
       IN  h' = [ h EXCEPT !.phase = "repeated",
                           !.again = Some(IF r.raised THEN r
                                          ELSE Return([ r.value EXCEPT !.included = TRUE ])) ]
    /\ UNCHANGED runVars

\* The same call once more: same series, lookup, stored record, reference
\* date and target year.
ReconcileAgain ==
    /\ h.phase = "returned"
    /\ h' = [ h EXCEPT !.phase = "repeated",
                       !.again = Some(_merge_occurrence(Series(h.series_id), h.lookup,
                                                        h.existing, h.reference_date,
                                                        h.target_year)) ]
    /\ UNCHANGED runVars

\* The same lookup once more, against the record the first call returned:
\* the next run's iteration when the agent's answer has not changed.
Repoll ==
    /\ h.phase = "returned"
    /\ ~h.result[1].raised
    /\ h' = [ h EXCEPT !.phase = "repolled",
                       !.again = Some(_merge_occurrence(Series(h.series_id), h.lookup,
                                                        Some(h.result[1].value),
                                                        h.reference_date, h.target_year)) ]
    /\ UNCHANGED runVars

NextMerge == Reconcile \/ ReconcileAgain \/ Repoll

SpecMerge == InitMerge /\ [][NextMerge]_vars

\* --------------------------------- one iteration on any answer of the agent
\* The loop body (runner.py 34-50) for series S1 and one target year, on an
\* empty occurrences table, with any output the agent can hand back; h keeps
\* the answer and what Researcher.fetch made of it.
Answer(raw, y) ==
    [ phase |-> "answered", series_id |-> "S1", raw |-> raw, target_year |-> y,
      fetched |-> Absent ]

InitLookup ==
    /\ tables = { "earnings", "occurrences" }
    /\ occurrences = {}
    /\ pc = "idle"
    /\ series_map = << >>
    /\ retention_years = RETENTION_YEARS_MIN
    /\ reference_date \in RunDates
    /\ pos = 1
    /\ last = NoLog
    /\ attempts = NoAttempts
    /\ stored_occurrences = {}
    /\ calendar_occurrences = {}
    /\ ics = Absent
    /\ exit_code = 0
    /\ published = {}
    /\ \E y \in { BaseYear, BaseYear + 1 } : \E raw \in RawLookups(y) : h = Answer(raw, y)

Iterate ==
    /\ h.phase = "answered"
    /\ LET it == Iteration(occurrences, h.series_id, h.target_year, reference_date,
                           AgentOutput(h.raw), "none")
       IN  /\ occurrences' = it.table
           /\ last' = it.log
    /\ h' = [ h EXCEPT !.phase = "iterated",
                       !.fetched = Some(fetch(AgentOutput(h.raw))) ]
    /\ UNCHANGED << tables, pc, series_map, retention_years, reference_date, pos,
                    attempts, stored_occurrences, calendar_occurrences, ics, exit_code,
                    published >>

NextLookup == Iterate

SpecLookup == InitLookup /\ [][NextLookup]_vars

\* ------------------------------------------------ earnings: filter_events
\* A str is a sequence of characters, so that upper() and strip() are
\* computed and not assumed.
UpperChar(c) == CASE c = "a" -> "A" [] c = "m" -> "M" [] c = "t" -> "T" [] OTHER -> c
upper(str) == [ i \in 1 .. Len(str) |-> UpperChar(str[i]) ]

RECURSIVE lstrip(_)
lstrip(str) == IF str # << >> /\ Head(str) = " " THEN lstrip(Tail(str)) ELSE str
RECURSIVE rstrip(_)
rstrip(str) ==
    IF str # << >> /\ str[Len(str)] = " " THEN rstrip(SubSeq(str, 1, Len(str) - 1)) ELSE str
strip(str) == rstrip(lstrip(str))

NoFiscalYear == 0 - 1
NoEstimate == 0 - 1
\* The dataclass, with its defaults for the estimates and the source.
EarningsEvent(ticker, date, quarter, fiscal_year) ==
    [ ticker |-> ticker, date |-> date, quarter |-> quarter, fiscal_year |-> fiscal_year,
      eps_estimate |-> NoEstimate, revenue_estimate |-> NoEstimate, source |-> None ]

event_year(ev) == IF ev.fiscal_year # NoFiscalYear THEN ev.fiscal_year ELSE YearOf(ev.date)

FinnhubEarningsItem(symbol, date, quarter, year, eps_estimate, revenue_estimate) ==
    [ symbol |-> symbol, date |-> date, quarter |-> quarter, year |-> year,
      eps_estimate |-> eps_estimate, revenue_estimate |-> revenue_estimate ]

\* FinnhubEarningsItem.into().
into(item) ==
    [ EarningsEvent(upper(strip(item.symbol)), item.date, item.quarter, item.year)
        EXCEPT !.eps_estimate = item.eps_estimate,
               !.revenue_estimate = item.revenue_estimate,
               !.source = "Finnhub" ]

\* Mutant: the key of the earlier earnings model, without the year.
DictKeyNoYear(ev) == << upper(ev.ticker), NoFiscalYear, ev.quarter >>

\* The key of the dict comprehension.
DictKey(ev) == << upper(ev.ticker), event_year(ev), ev.quarter >>

\* A dict is a sequence of << key, value >> in insertion order; assigning to
\* a key that is there replaces the value and keeps the position.
RECURSIVE DictSet(_, _, _)
DictSet(d, k, v) ==
    IF d = << >> THEN << << k, v >> >>
    ELSE IF Head(d)[1] = k THEN << << k, v >> >> \o Tail(d)
    ELSE << Head(d) >> \o DictSet(Tail(d), k, v)

RECURSIVE DictComprehension(_, _)
DictComprehension(d, events) ==
    IF events = << >> THEN d
    ELSE DictComprehension(DictSet(d, DictKey(Head(events)), Head(events)), Tail(events))

values(d) == [ i \in 1 .. Len(d) |-> d[i][2] ]

InAllowed(ev, allowed_set) == upper(ev.ticker) \in allowed_set

filter_events(events, allowed) ==
    IF allowed # << >>
    THEN LET allowed_set ==
                 { upper(strip(allowed[i])) :
                     i \in { j \in 1 .. Len(allowed) :
                               allowed[j] # << >> /\ strip(allowed[j]) # << >> } }
             kept == SelectSeq(events, LAMBDA ev : InAllowed(ev, allowed_set))
         IN  values(DictComprehension(<< >>, kept))
    ELSE values(DictComprehension(<< >>, events))

\* The events of one fetch: built by into() from Finnhub items, or built
\* directly with no fiscal year as the tests do.
EventPool ==
    { EarningsEvent(<< "A" >>, MkDate(BaseYear, 0), 1, NoFiscalYear),
      EarningsEvent(<< "A" >>, MkDate(BaseYear, 1), 1, NoFiscalYear),
      EarningsEvent(<< "A" >>, MkDate(BaseYear + 1, 0), 1, NoFiscalYear),
      EarningsEvent(<< "M" >>, MkDate(BaseYear, 0), 2, NoFiscalYear),
      EarningsEvent(<< "T" >>, MkDate(BaseYear, 0), 1, NoFiscalYear),
      into(FinnhubEarningsItem(<< " ", "a" >>, MkDate(BaseYear + 1, 0), 1, BaseYear,
                               NoEstimate, NoEstimate)) }

AllowedPool == { << " ", "a", " " >>, << "M" >>, << "t" >>, << >>, << " " >> }

SeqsUpTo(S, n) == UNION { [ 1 .. k -> S ] : k \in 0 .. n }

EarningsFetch(events, allowed) ==
    [ phase |-> "fetched", events |-> events, allowed |-> allowed, selected |-> << >> ]

InitFilter ==
    /\ tables = {}
    /\ occurrences = {}
    /\ pc = "idle"
    /\ series_map = << >>
    /\ retention_years = RETENTION_YEARS_MIN
    /\ reference_date = MkDate(BaseYear, 0)
    /\ pos = 1
    /\ last = NoLog
    /\ attempts = NoAttempts
    /\ stored_occurrences = {}
    /\ calendar_occurrences = {}
    /\ ics = Absent
    /\ exit_code = 0
    /\ published = {}
    /\ \E events \in SeqsUpTo(EventPool, MaxEvents), allowed \in SeqsUpTo(AllowedPool, MaxAllowed) :
          h = EarningsFetch(events, allowed)

\* run_earnings, line 45.
Filter ==
    /\ h.phase = "fetched"
    /\ h' = [ h EXCEPT !.phase = "filtered",
                       !.selected = filter_events(h.events, h.allowed) ]
    /\ UNCHANGED runVars

NextFilter == Filter

SpecFilter == InitFilter /\ [][NextFilter]_vars

\* No run of the events command is under way.
NoRun ==
    /\ tables = {}
    /\ occurrences = {}
    /\ pc = "idle"
    /\ series_map = << >>
    /\ retention_years = RETENTION_YEARS_MIN
    /\ reference_date = MkDate(BaseYear, 0)
    /\ pos = 1
    /\ last = NoLog
    /\ attempts = NoAttempts
    /\ stored_occurrences = {}
    /\ calendar_occurrences = {}
    /\ ics = Absent
    /\ exit_code = 0
    /\ published = {}

\* --------------------------------------------- earnings: the repository
\* A row of the earnings table (created_at and updated_at are written and
\* never read, and are left out).
EarningsRow(event) ==
    [ ticker |-> upper(strip(event.ticker)),
      fiscal_year |-> event_year(event),
      quarter |-> event.quarter,
      event_date |-> _to_iso(event.date),
      eps_estimate |-> event.eps_estimate,
      revenue_estimate |-> event.revenue_estimate,
      source |-> event.source ]

SameEarningsKey(a, b) ==
    a.ticker = b.ticker /\ a.fiscal_year = b.fiscal_year /\ a.quarter = b.quarter

\* Mutant: ON CONFLICT DO NOTHING.
UpsertKeepsFirst(table, row) ==
    IF \E r \in table : SameEarningsKey(r, row) THEN table ELSE table \cup { row }

\* INSERT ... ON CONFLICT(ticker, fiscal_year, quarter) DO UPDATE SET
\* event_date, eps_estimate, revenue_estimate, source (and updated_at).
Upsert(table, row) ==
    { IF SameEarningsKey(r, row)
      THEN [ r EXCEPT !.event_date = row.event_date,
                      !.eps_estimate = row.eps_estimate,
                      !.revenue_estimate = row.revenue_estimate,
                      !.source = row.source ]
      ELSE r : r \in table }
        \cup (IF \E r \in table : SameEarningsKey(r, row) THEN {} ELSE { row })

RECURSIVE executemany(_, _)
executemany(table, payload) ==
    IF payload = << >> THEN table
    ELSE executemany(Upsert(table, Head(payload)), Tail(payload))

save_events(table, events) ==
    IF events = << >> THEN table
    ELSE executemany(table, [ i \in 1 .. Len(events) |-> EarningsRow(events[i]) ])

\* The events of the rows from the threshold year on.  The list is sorted by
\* (date, ticker, quarter); Calendar.events, where it ends, is a set, and so
\* is the result here.
list_for_calendar(table, current_year, retention) ==
    LET threshold_year == current_year - retention
        rows == { r \in table : r.fiscal_year >= threshold_year }
    IN  { [ ticker |-> row.ticker,
            date |-> _parse_date(row.event_date),
            quarter |-> row.quarter,
            fiscal_year |-> row.fiscal_year,
            eps_estimate |-> row.eps_estimate,
            revenue_estimate |-> row.revenue_estimate,
            source |-> row.source ] :
          row \in { r \in rows : _parse_date(r.event_date) # NoDate } }

LowerChar(c) == CASE c = "A" -> "a" [] c = "M" -> "m" [] c = "T" -> "t" [] OTHER -> c
lower(str) == [ i \in 1 .. Len(str) |-> LowerChar(str[i]) ]

\* EarningsEvent.uid(): the digest is over these parts.
earnings_uid(ev, relcalid) ==
    << UID_VERSION, << UID_VERSION, "earnings", lower(ev.ticker), event_year(ev), ev.quarter >>,
       relcalid >>

\* The calendar event built for one earnings event (earnings/runner.py 63-68).
make_all_day_event(ev, relcalid) ==
    [ uid |-> earnings_uid(ev, relcalid),
      name |-> << ev.ticker, ev.quarter >>,
      begin |-> ev.date,
      description |-> << ev.ticker, ev.quarter, ev.eps_estimate, ev.revenue_estimate,
                         IF Truthy(ev.source) THEN ev.source ELSE "-" >> ]

\* ------------------------------------------------- earnings: run_earnings
\* What Finnhub answers with, within the bounds: a report date that is
\* revised together with its estimate, a later quarter of the next fiscal
\* year, and, in that year too, a second company whose symbol comes padded
\* and in lower case.
ItemPool ==
    { FinnhubEarningsItem(<< "A" >>, MkDate(BaseYear, 0), 1, BaseYear, NoEstimate, NoEstimate),
      FinnhubEarningsItem(<< "A" >>, MkDate(BaseYear, DaysPerYear - 1), 1, BaseYear, 1, 2),
      FinnhubEarningsItem(<< "A" >>, MkDate(BaseYear + 1, 0), 2, BaseYear + 1, NoEstimate, 2),
      FinnhubEarningsItem(<< " ", "m" >>, MkDate(BaseYear + 1, 0), 1, BaseYear + 1,
                           1, NoEstimate) }

\* config.earnings.tickers, as the validator leaves them.
TickerConfigs == { << << "A" >> >>, << << "A" >>, << "M" >> >> }
MaxFetched == 2
DEFAULT_EARNINGS_RELCALID == "tech.calendar.earnings"

\* The state of the earnings command: the table, the locals of the run
\* under way, the calendar file and the exit status; saved is history: for
\* every key ever saved, the event of the last run that saved it.
EarningsIdle(table, saved, file, current_year, retention, status) ==
    [ phase |-> "idle", earnings |-> table, saved |-> saved, ics |-> file,
      current_year |-> current_year, retention_years |-> retention,
      selected_events |-> << >>, calendar_events |-> {}, exit_code |-> status ]

SavedKey(ev) == << ev.ticker, event_year(ev), ev.quarter >>
Elems(seq) == { seq[i] : i \in 1 .. Len(seq) }
Remember(saved, events) ==
    { e \in saved : SavedKey(e) \notin { SavedKey(x) : x \in Elems(events) } }
        \cup Elems(events)

InitEarnings ==
    /\ NoRun
    /\ h = EarningsIdle({}, {}, Absent, BaseYear, RETENTION_YEARS_MIN, 0)

\* run_earnings up to line 45: the fetch, which ends the process with
\* status 2 when it fails, and filter_events.
FetchEarnings ==
    /\ h.phase = "idle"
    /\ \E year \in BaseYear .. (BaseYear + MaxAdvance) :
          /\ year >= h.current_year
          /\ \/ h' = [ h EXCEPT !.current_year = year, !.exit_code = 2 ]
             \/ \E retention \in RetentionChoices, items \in SeqsUpTo(ItemPool, MaxFetched),
                   tickers \in TickerConfigs :
                   h' = [ h EXCEPT
                           !.phase = "fetched",
                           !.current_year = year,
                           !.retention_years = retention,
                           !.selected_events =
                               filter_events([ i \in 1 .. Len(items) |-> into(items[i]) ],
                                             tickers),
                           !.exit_code = Running ]
    /\ UNCHANGED runVars

\* Lines 47-53, the with statement: save_events, list_for_calendar and the
\* exit of the context.  A failure is a StorageError and ends the run; what
\* save_events committed stays, unless the database file itself could not
\* be persisted.
StoreEarnings ==
    /\ h.phase = "fetched"
    /\ \E fault \in { "none", "save", "list", "finalize" } :
          LET table == save_events(h.earnings, h.selected_events)
              abort == [ h EXCEPT !.phase = "idle", !.selected_events = << >>,
                                  !.retention_years = RETENTION_YEARS_MIN,
                                  !.exit_code = _execute_command("StorageError") ]
          IN  h' = IF fault \in { "save", "finalize" } THEN abort
                  ELSE IF fault = "list"
                      THEN [ abort EXCEPT !.earnings = table,
                                          !.saved = Remember(h.saved, h.selected_events) ]
                  ELSE [ h EXCEPT
                          !.phase = "listed",
                          !.earnings = table,
                          !.saved = Remember(h.saved, h.selected_events),
                          !.calendar_events =
                              list_for_calendar(table, h.current_year, h.retention_years) ]
    /\ UNCHANGED runVars

\* Lines 55-70: build_and_write_calendar.
WriteEarnings ==
    /\ h.phase = "listed"
    /\ \E outcome \in { "", "OSError" } :
          h' = [ h EXCEPT
                  !.phase = "idle",
                  !.ics = IF outcome = ""
                          THEN Some({ make_all_day_event(ev, DEFAULT_EARNINGS_RELCALID) :
                                        ev \in h.calendar_events })
                          ELSE @,
                  !.retention_years = RETENTION_YEARS_MIN,
                  !.selected_events = << >>,
                  !.calendar_events = {},
                  !.exit_code = _execute_command(outcome) ]
    /\ UNCHANGED runVars

NextEarnings == FetchEarnings \/ StoreEarnings \/ WriteEarnings

SpecEarnings == InitEarnings /\ [][NextEarnings]_vars

\* ------------------------------------------------ Researcher.fetch, retried
\* agent.run_sync(prompt, deps, output_type=LookupResult): the validated
\* output, or an exception (of the model, or for an output that
\* LookupResult rejects).
run_sync(agent_result) ==
    IF agent_result.failed THEN Raise("ModelHTTPError")
    ELSE LET parsed == LookupResult(agent_result.output)
         IN  IF parsed.ok THEN Return(parsed.value) ELSE Raise("UnexpectedModelBehavior")

\* Mutant: one attempt more.
stop_after_attemptFour(attempt_number) == attempt_number >= 4

\* tenacity: stop=stop_after_attempt(3).
stop_after_attempt(attempt_number) == attempt_number >= 3

\* fetch(deps) has been called; outcomes are those of the attempts so far.
Fetching(series_id, year) ==
    [ phase |-> "calling", series_id |-> series_id, year |-> year,
      outcomes |-> << >>, result |-> NoLookup ]

InitFetch ==
    /\ NoRun
    /\ \E series_id \in SeriesIds, year \in Years : h = Fetching(series_id, year)

\* One attempt of _run_with_retry: the outcome is returned, or re-raised
\* when tenacity stops (fetch wraps it into LLMError), or followed, after
\* the wait, by the next attempt.
Attempt ==
    /\ h.phase = "calling"
    /\ \E agent_result \in AgentResults(h.series_id, h.year, TRUE) :
          LET outcome == run_sync(agent_result)
              attempt_number == Len(h.outcomes) + 1
          IN  h' = [ h EXCEPT
                      !.outcomes = Append(@, outcome),
                      !.phase = IF ~outcome.raised THEN "returned"
                                ELSE IF stop_after_attempt(attempt_number) THEN "raised"
                                ELSE "calling",
                      !.result = IF ~outcome.raised THEN outcome
                                 ELSE IF stop_after_attempt(attempt_number)
                                     THEN Raise("LLMError")
                                 ELSE NoLookup ]
    /\ UNCHANGED runVars

NextFetch == Attempt

\* run_sync is a blocking call of the one thread and the wait between two
\* attempts is at most ten seconds: an attempt that is due is made.
SpecFetch == InitFetch /\ [][NextFetch]_vars /\ WF_vars(NextFetch)

\* ------------------------------------------- Database and its backends
\* The versions a database file goes through are 0 .. MaxWrites.
MaxWrites == 2

\* A backend object: the scheme that selected it; for WebDAV the attributes
\* _temp_dir and _local_path (TRUE: not None), whether the temporary
\* directory is on disk, the version of the local file and the remote file
\* (Absent, or Some(version)).
Backend(scheme, remote) ==
    [ scheme |-> scheme, _temp_dir |-> FALSE, _local_path |-> FALSE,
      temp_exists |-> FALSE, local |-> 0, remote |-> remote ]

Done(b, calls, raised) == [ b |-> b, calls |-> calls, raised |-> raised ]

\* prepare().  check: what _remote_exists finds ("exists", "missing", or
\* "error" for a failure other than 404).
prepare(b, check, download_ok) ==
    IF b.scheme = "file" THEN Done(b, << "prepare" >>, "")
    ELSE LET made == [ b EXCEPT !._temp_dir = TRUE, !._local_path = TRUE,
                                !.temp_exists = TRUE ]
         IN  IF check = "error"
                 THEN Done(made, << "prepare", "_check" >>, "StorageError")
             ELSE IF check = "missing"
                 THEN Done(made, << "prepare", "_check" >>, "")
             ELSE IF download_ok
                 THEN Done([ made EXCEPT !.local = b.remote[1] ],
                           << "prepare", "_check", "_download" >>, "")
             ELSE Done([ made EXCEPT !._temp_dir = FALSE, !._local_path = FALSE,
                                     !.temp_exists = FALSE ],
                       << "prepare", "_check", "_download", "cleanup" >>, "StorageError")

\* Mutant: the temporary directory is removed after the upload, not in a
\* finally clause.
finalizeNoFinally(b, mkdir_ok, upload_ok) ==
    IF b.scheme = "file" THEN Done(b, << "finalize" >>, "")
    ELSE IF ~b._local_path THEN Done(b, << "finalize" >>, "")
    ELSE IF ~mkdir_ok
        THEN Done(b, << "finalize", "_ensure_remote_dir" >>, "StorageError")
    ELSE IF ~upload_ok
        THEN Done(b, << "finalize", "_ensure_remote_dir", "_upload" >>, "StorageError")
    ELSE Done([ b EXCEPT !.remote = Some(b.local), !._temp_dir = FALSE,
                         !.temp_exists = IF b._temp_dir THEN FALSE ELSE @ ],
              << "finalize", "_ensure_remote_dir", "_upload" >>
                  \o (IF b._temp_dir THEN << "cleanup" >> ELSE << >>), "")

\* finalize(): a no-op for a local file; for WebDAV the remote directory,
\* the upload, and in any case the removal of the temporary directory.
finalize(b, mkdir_ok, upload_ok) ==
    IF b.scheme = "file" THEN Done(b, << "finalize" >>, "")
    ELSE IF ~b._local_path THEN Done(b, << "finalize" >>, "")
    ELSE LET uploaded == mkdir_ok /\ upload_ok
         IN  Done([ b EXCEPT !.remote = IF uploaded THEN Some(b.local) ELSE @,
                             !._temp_dir = FALSE,
                             !.temp_exists = IF b._temp_dir THEN FALSE ELSE @ ],
                  << "finalize", "_ensure_remote_dir" >>
                      \o (IF mkdir_ok THEN << "_upload" >> ELSE << >>)
                      \o (IF b._temp_dir THEN << "cleanup" >> ELSE << >>),
                  IF uploaded THEN "" ELSE "StorageError")

\* Database.close(): the connection, a warning when that fails, and the
\* backend's finalize().
close(b, close_ok, mkdir_ok, upload_ok) ==
    LET f == finalize(b, mkdir_ok, upload_ok)
    IN  Done(f.b,
             << "conn.close" >> \o (IF close_ok THEN << >> ELSE << "db_close_failed" >>)
                 \o f.calls,
             f.raised)

\* A Database about to be constructed for a storage location.
Storage(b) ==
    [ phase |-> "new", b |-> b, conn |-> "none", calls |-> << >>, raised |-> "" ]


InitDatabase ==
    /\ NoRun
    /\ \E scheme \in { "file", "webdav" }, remote \in { Absent, Some(0) } :
          /\ scheme = "file" => remote = Absent
          /\ h = Storage(Backend(scheme, remote))

\* Database.__init__: prepare(), _open(), _ensure_schema().  What it raises
\* leaves the with statement before the context is entered.
Construct ==
    /\ h.phase = "new"
    /\ \E check \in { "exists", "missing", "error" }, download_ok \in BOOLEAN,
          open \in { "", "_open", "_ensure_schema" } :
          /\ check = "exists" => h.b.remote # Absent
          /\ check = "missing" => h.b.remote = Absent
          /\ LET p == prepare(h.b, check, download_ok)
             IN  h' = IF p.raised # ""
                          THEN [ h EXCEPT !.phase = "failed", !.b = p.b,
                                          !.calls = p.calls, !.raised = p.raised ]
                      ELSE IF open # ""
                          THEN [ h EXCEPT !.phase = "failed", !.b = p.b,
                                          !.conn = IF open = "_open" THEN "none" ELSE "open",
                                          !.calls = p.calls \o << open >>,
                                          !.raised = "StorageError" ]
                      ELSE [ h EXCEPT !.phase = "entered", !.b = p.b, !.conn = "open",
                                      !.calls = << >> ]
    /\ UNCHANGED runVars

\* The body of the with statement: it writes or not, and ends or raises.
Block ==
    /\ h.phase = "entered"
    /\ \E writes \in { 0, 1 },
          raised \in { "", "StorageError", "SystemExit", "KeyboardInterrupt" } :
          /\ h.b.local + writes <= MaxWrites
          /\ h' = [ h EXCEPT !.phase = "leaving",
                             !.b.local = @ + writes,
                             !.raised = raised ]
    /\ UNCHANGED runVars

\* Database.__exit__: close(); it returns None, so what the body raised
\* goes on, unless finalize() raises.
Exit ==
    /\ h.phase = "leaving"
    /\ \E close_ok \in BOOLEAN, mkdir_ok \in BOOLEAN, upload_ok \in BOOLEAN :
          LET c == close(h.b, close_ok, mkdir_ok, upload_ok)
          IN  h' = [ h EXCEPT !.phase = "exited",
                              !.b = c.b,
                              !.conn = IF close_ok THEN "closed" ELSE "close_failed",
                              !.calls = c.calls,
                              !.raised = IF c.raised # "" THEN c.raised ELSE @ ]
    /\ UNCHANGED runVars

\* The next run of a command: a new process, a new backend object for the
\* same location; the local file of a file location and the remote file
\* are what the last run left.
Rerun ==
    /\ h.phase \in { "exited", "failed" }
    /\ h' = Storage([ Backend(h.b.scheme, h.b.remote) EXCEPT
                        !.local = IF h.b.scheme = "file" THEN h.b.local ELSE 0 ])
    /\ UNCHANGED runVars

NextDatabase == Construct \/ Block \/ Exit \/ Rerun

SpecDatabase == InitDatabase /\ [][NextDatabase]_vars

\* ================================================================ claims
Returned == h.phase = "returned"
Result == h.result[1]
MatchingYear == h.lookup.year = h.target_year
NoDates(x) == x.start_date = NoDate /\ x.end_date = NoDate
Unsure(lookup) == ~lookup.confident /\ ~lookup.confirmed
HSkipped == SkipPast(Series(h.series_id), h.lookup, h.existing, h.reference_date)

\* C2: monotonic inclusion.  Reconciling an existing record that has
\* included = true with a lookup of the requested year that is neither
\* confident nor confirmed returns a record with included = true,
\* whatever the reference date.
C2_MonotonicInclusion ==
    (Returned /\ MatchingYear /\ h.existing # Absent /\ h.existing[1].included
        /\ Unsure(h.lookup))
    => (~Result.raised /\ Result.value.included)

\* The guard itself decides: an included record, an unsure lookup, and the
\* merge is not skipped.
C2_Witness ==
    /\ Returned /\ MatchingYear /\ h.existing # Absent /\ h.existing[1].included
    /\ Unsure(h.lookup) /\ ~HSkipped
    /\ Result.value.included
    /\ ~Result.value.confident /\ ~Result.value.confirmed

\* C3: an existing record that ended before the reference date and a lookup
\* of the requested year without dates: the existing record is returned
\* unchanged in every field.
C3_PastShortCircuitWithDateFallback ==
    (Returned /\ MatchingYear /\ h.existing # Absent
        /\ TruthyDate(h.existing[1].end_date)
        /\ h.existing[1].end_date < h.reference_date
        /\ NoDates(h.lookup))
    => Result = Return(h.existing[1])

\* C10: a lookup of the requested year never makes the merge raise, and the
\* record returned has the requested year.
C10_MatchingYearReturnsRecordOfThatYear ==
    (Returned /\ MatchingYear)
    => (~Result.raised /\ Result.value.year = h.target_year)

\* Both ways out: the stored record returned as it is, and a merged record.
C10_Witness ==
    /\ Returned /\ MatchingYear /\ h.existing # Absent
    /\ ~HSkipped
    /\ ~Result.raised
    /\ Result.value.year = h.target_year
    /\ Result.value # h.existing[1]

\* C11: field-level merge.  Whenever the merge is not skipped, each of start
\* date, end date, location, timezone and announcement URL of the result is
\* the lookup's value if it is present and non-empty, else the stored value,
\* else absent.
Present(v) == v # None /\ v # ""
FieldMerge(incoming, existing, f) ==
    IF Present(incoming) THEN incoming
    ELSE IF existing # Absent THEN existing[1][f] ELSE None
DateMerge(incoming, existing, f) ==
    IF incoming # NoDate THEN incoming
    ELSE IF existing # Absent THEN existing[1][f] ELSE NoDate
UrlText(u) == IF u = NoUrl THEN None ELSE UrlStr(u)

C11_FieldLevelMerge ==
    (Returned /\ MatchingYear /\ ~HSkipped) =>
        /\ ~Result.raised
        /\ Result.value.start_date = DateMerge(h.lookup.start_date, h.existing, "start_date")
        /\ Result.value.end_date = DateMerge(h.lookup.end_date, h.existing, "end_date")
        /\ Result.value.location = FieldMerge(h.lookup.location, h.existing, "location")
        /\ Result.value.timezone = FieldMerge(h.lookup.timezone, h.existing, "timezone")
        /\ Result.value.announcement_url =
               FieldMerge(UrlText(h.lookup.announcement_url), h.existing, "announcement_url")

\* A lookup without dates against a stored record that is still to come: the
\* stored dates are kept, the lookup's location replaces the stored one, the
\* stored timezone fills the lookup's gap.
C11_Witness ==
    /\ Returned /\ MatchingYear /\ h.existing # Absent /\ ~HSkipped
    /\ NoDates(h.lookup)
    /\ h.existing[1].start_date > h.reference_date
    /\ h.existing[1].end_date > h.existing[1].start_date
    /\ Result.value.start_date = h.existing[1].start_date
    /\ Result.value.end_date = h.existing[1].end_date
    /\ h.lookup.location = "Berlin" /\ h.existing[1].location = "Lisbon"
    /\ Result.value.location = "Berlin"
    /\ h.lookup.timezone = None /\ Result.value.timezone = "Europe/Lisbon"

\* C12 as stated: the confident and confirmed flags of the record the merge
\* returns always equal the lookup's, whatever the stored record's flags.
C12_FlagsAlwaysFromLookup ==
    (Returned /\ MatchingYear) =>
        /\ Result.value.confident = h.lookup.confident
        /\ Result.value.confirmed = h.lookup.confirmed

\* C12, amended: whenever the merge is not skipped, the confident and
\* confirmed flags of the record it returns equal the lookup's, whatever the
\* stored record's flags; a skipped merge returns the stored record with
\* the stored flags.
C12_FlagsFromLookupUnlessSkipped ==
    (Returned /\ MatchingYear) =>
        IF HSkipped
        THEN Result = Return(h.existing[1])
        ELSE /\ Result.value.confident = h.lookup.confident
             /\ Result.value.confirmed = h.lookup.confirmed

\* Stored flags both true, the lookup's both false, and the merge not skipped.
C12_Witness ==
    /\ Returned /\ MatchingYear /\ h.existing # Absent /\ ~HSkipped
    /\ h.existing[1].confident /\ h.existing[1].confirmed
    /\ Unsure(h.lookup)
    /\ ~Result.value.confident /\ ~Result.value.confirmed

\* C13: with no stored record, the record returned has included =
\* lookup.confident or lookup.confirmed, the series' id, the lookup's year
\* and every other field copied from the lookup.
C13_NoExistingCopiesLookup ==
    (Returned /\ MatchingYear /\ h.existing = Absent) =>
        Result = Return([ series_id |-> Series(h.series_id).id,
                          year |-> h.lookup.year,
                          start_date |-> h.lookup.start_date,
                          end_date |-> h.lookup.end_date,
                          location |-> h.lookup.location,
                          timezone |-> h.lookup.timezone,
                          confident |-> h.lookup.confident,
                          confirmed |-> h.lookup.confirmed,
                          announcement_url |-> UrlText(h.lookup.announcement_url),
                          included |-> (h.lookup.confident \/ h.lookup.confirmed) ])

\* The scenario: S1, a lookup with a start and a later end, confident and
\* not confirmed, yields an included record with those dates.
C13_Witness ==
    /\ Returned /\ h.existing = Absent /\ h.series_id = "S1"
    /\ h.lookup.year = BaseYear /\ h.target_year = BaseYear
    /\ h.lookup.start_date = MkDate(BaseYear, 0)
    /\ h.lookup.end_date = MkDate(BaseYear, DaysPerYear - 1)
    /\ h.lookup.confident /\ ~h.lookup.confirmed
    /\ Result.value.included
    /\ Result.value.start_date = MkDate(BaseYear, 0)
    /\ Result.value.end_date = MkDate(BaseYear, DaysPerYear - 1)

\* ------------------------------------------------------------- the run
PairKey(p) == << PairSeries(p), PairYear(p) >>
IterationStep == pc = "loop" /\ pos <= NPairs /\ pos' # pos
LastKey == << last.series_id, last.year >>
LookupArrived == last.lookup_year # NoYear
TableThere == "occurrences" \in tables

\* C1: an iteration whose lookup names another year than the one asked for
\* ends in an error and leaves the occurrences table as it was: the
\* OrchestrationError of _merge_occurrence, unless reading the stored record
\* failed before the merge was reached.
C1_YearMismatchLeavesStoreUntouched ==
    [][ (IterationStep /\ last'.lookup_year # NoYear /\ last'.lookup_year # last'.year)
        => /\ occurrences' = occurrences
           /\ last'.error \in { "OrchestrationError", "StorageError" }
           /\ (TableThere /\ ~last'.faulted) => last'.error = "OrchestrationError"
      ]_vars

\* A lookup of the wrong year met a table that already holds the key's record.
C1_Witness ==
    /\ pc = "loop"
    /\ LookupArrived /\ last.lookup_year # last.year
    /\ last.error = "OrchestrationError"
    /\ LastKey \in KeysOf(occurrences)

\* C4: a storage error while a pair is processed ends the run: the loop does
\* not go on and no calendar is collected.
C4_StorageFailureAbortsRun ==
    last.error = "StorageError" => pc \notin { "loop", "render" }

\* C5: every pair of this run is attempted exactly once and in order, no
\* other key is attempted, an iteration always hands over to the next pair
\* whatever it raised, and after the last pair the run goes on to the
\* retention selection.
C5_Attempted ==
    /\ pc \in { "loop", "render" } =>
        /\ \A p \in 1 .. NPairs : attempts[PairKey(p)] = IF p < pos THEN 1 ELSE 0
        /\ \A k \in Keys : attempts[k] # 0 => \E p \in 1 .. NPairs : k = PairKey(p)
    /\ pc = "render" => pos = NPairs + 1

C5_FailureIsolation ==
    /\ []C5_Attempted
    /\ [][ /\ IterationStep => (pc' = "loop" /\ pos' = pos + 1)
           /\ (pc = "loop" /\ pos' = pos /\ pc' # pc) => pos = NPairs + 1
       ]_vars

\* After a failed pair of the first series the pairs of the second series
\* were processed and one of them was upserted.
C5_Witness ==
    /\ pc = "render"
    /\ NPairs = 4
    /\ last.error = ""
    /\ << "S2", last.year >> \in KeysOf(occurrences)
    /\ \E p \in 1 .. 2 : PairKey(p) \notin KeysOf(occurrences)

\* C9: an iteration whose lookup arrives with the year asked for, with no
\* record stored for the key and with no fault of the environment, leaves a
\* record for the key in the store.
C9_CreatedOnFirstReconciliation ==
    [][ (IterationStep /\ last'.lookup_year = last'.year /\ ~last'.faulted
            /\ << last'.series_id, last'.year >> \notin KeysOf(occurrences))
        => << last'.series_id, last'.year >> \in KeysOf(occurrences')
      ]_vars

\* ------------------------------------------------------- across the years
CurrentYear == YearOf(reference_date)
StoredView == { _row_to_occurrence(r) : r \in occurrences }
RecordKey(r) == << r.series_id, r.year >>
Collected == pc = "render"

\* C6: a key that has appeared in the projected calendar of a run is in the
\* projected calendar of every later run in which its series is configured
\* and its year is inside the retention window, whatever the lookups
\* answered in between.
C6_PublishedStaysPublished ==
    Collected =>
        \A k \in published :
            (k[1] \in SeriesSet /\ k[2] >= CurrentYear - retention_years)
            => k \in OccurrenceKeys(calendar_occurrences)

\* A published occurrence whose latest answer was neither confident nor
\* confirmed is still in the calendar.
C6_Witness ==
    /\ Collected
    /\ \E o \in calendar_occurrences :
        /\ << o.series.id, o.year >> \in published
        /\ ~o.confident /\ ~o.confirmed

\* C7: the retention selection returns exactly the stored records of the
\* years from current year - retention years on that have included = true.
C7_RetentionSelection ==
    Collected =>
        stored_occurrences =
            { r \in StoredView : r.year >= CurrentYear - retention_years /\ r.included }

\* The boundary: the threshold year is selected, the year before it is not,
\* a record inside the window that is not included is not.
C7_Witness ==
    /\ Collected
    /\ \E r \in stored_occurrences : r.year = CurrentYear - retention_years
    /\ \E r \in StoredView \ stored_occurrences :
        r.year = CurrentYear - retention_years - 1 /\ r.included
    /\ \E r \in StoredView \ stored_occurrences :
        r.year >= CurrentYear - retention_years /\ ~r.included

\* C8: no step removes a key from the store; only an iteration of the loop
\* changes the store, the retention selection and the projection do not; and
\* a record the narrow window leaves out is selected under the wider one.
C8_Widening ==
    \A narrow \in RetentionChoices, wide \in RetentionChoices :
        narrow <= wide =>
            /\ list_occurrences_for_calendar(occurrences, CurrentYear, narrow)
                 \subseteq list_occurrences_for_calendar(occurrences, CurrentYear, wide)
            /\ \A r \in StoredView :
                 (r.included /\ r.year >= CurrentYear - wide)
                 => r \in list_occurrences_for_calendar(occurrences, CurrentYear, wide)

C8_RetentionNeverDeletes ==
    /\ []C8_Widening
    /\ [][ /\ KeysOf(occurrences) \subseteq KeysOf(occurrences')
           /\ ~IterationStep => occurrences' = occurrences
       ]_vars

\* The narrow window has left out an included record that is still stored
\* and that the wider window selects.
C8_Witness ==
    /\ Collected
    /\ retention_years = RETENTION_YEARS_MIN
    /\ \E r \in StoredView \ stored_occurrences :
        /\ r.included
        /\ r \in list_occurrences_for_calendar(occurrences, CurrentYear,
                                               RETENTION_YEARS_MIN + 1)

\* C14: the projection emits an Occurrence for a retained record if and only
\* if the record's series is configured and the record has a start date and
\* an end date; any other record is passed over, the run goes on to the
\* rendering, and the record is not in the calendar even when included.
Projectable(r) ==
    r.series_id \in SeriesSet /\ r.start_date # NoDate /\ r.end_date # NoDate

C14_ProjectionIff ==
    Collected =>
        /\ calendar_occurrences =
              { OccurrenceOf(Series(r.series_id), r) :
                  r \in { x \in stored_occurrences : Projectable(x) } }
        /\ \A r \in StoredView :
              ~Projectable(r) => RecordKey(r) \notin OccurrenceKeys(calendar_occurrences)
        /\ \A r \in stored_occurrences :
              Projectable(r) => RecordKey(r) \in OccurrenceKeys(calendar_occurrences)

\* One retained record is projected, one is included without dates, one
\* belongs to a series the configuration no longer has.
C14_Witness ==
    /\ Collected
    /\ calendar_occurrences # {}
    /\ \E r \in stored_occurrences :
          r.included /\ r.series_id \in SeriesSet /\ r.start_date = NoDate
    /\ \E r \in stored_occurrences :
          r.series_id \notin SeriesSet /\ r.start_date # NoDate /\ r.end_date # NoDate

\* C15: the store holds at most one record per (series id, year), and an
\* iteration that upserts leaves the rows of every other key as they were
\* and exactly one row for its own key.
RowsOf(table, k) == { r \in table : SameKey(r, k[1], k[2]) }

C15_OnePerKey == \A k \in Keys : Cardinality(RowsOf(occurrences, k)) <= 1

C15_OneRecordPerKey ==
    /\ []C15_OnePerKey
    /\ [][ (IterationStep /\ last'.error = "") =>
              LET k == << last'.series_id, last'.year >>
              IN  /\ occurrences' \ RowsOf(occurrences', k) =
                        occurrences \ RowsOf(occurrences, k)
                  /\ Cardinality(RowsOf(occurrences', k)) = 1
       ]_vars

\* The row of the key just processed was written over an earlier row of the
\* same key: its dates are the earlier answer's, its flags the later one's.
C15_Witness ==
    /\ pc = "loop" /\ last.error = ""
    /\ \E r \in RowsOf(occurrences, LastKey) :
          r.start_date # NULL /\ r.confident = 0 /\ r.included = 1
    /\ Cardinality(occurrences) > 1

\* C16: idempotence.  The same call of the merge made twice, with the same
\* lookup, the same stored record (in particular none) and the same
\* reference date, returns the same result both times.
Repeated == h.phase = "repeated"

EventsOf(file) == IF file = Absent THEN {} ELSE file[1]
SeriesOfName(name) == CHOOSE id \in SeriesIds : Series(id).name = name
RelcalidOf(uid) == uid[3]

C17_UidOfKey ==
    \A e \in EventsOf(ics) :
        e.uid = << UID_VERSION,
                   << UID_VERSION, "events", SeriesOfName(e.name[1]), e.name[2] >>,
                   RelcalidOf(e.uid) >>

C17_UidDeterministic ==
    /\ []C17_UidOfKey
    /\ [][ \A e \in EventsOf(ics'), f \in EventsOf(ics) :
              (e.name = f.name /\ RelcalidOf(e.uid) = RelcalidOf(f.uid)) => e.uid = f.uid
       ]_vars

\* The file of an earlier run has an event for a key that this run projects
\* with another confident flag; the UID this run computes under the file's
\* relcalid is the one in the file.
C17_Witness ==
    /\ Collected
    /\ \E f \in EventsOf(ics), occ \in calendar_occurrences :
          /\ f.name = << occ.series.name, occ.year >>
          /\ f.description[4] # occ.confident
          /\ occurrence_uid(occ.series.id, occ.year, RelcalidOf(f.uid)) = f.uid

\* C19: a storage error of the retention selection ends the run with exit
\* status 2 and leaves the calendar file alone; a run that reaches the
\* rendering ends with 0 only when the whole calendar was written, and with
\* 1 otherwise; when building or serializing the calendar failed (no write
\* was attempted, nothing logged by write_text_file) the file is as it was.
WholeCalendars ==
    { Some({ EventOf(occ, relcalid) : occ \in calendar_occurrences }) :
        relcalid \in Relcalids }

C19_RunLevelEscalation ==
    [][ /\ (pc = "loop" /\ pc' = "idle") => (exit_code' = 2 /\ ics' = ics)
        /\ (pc = "render" /\ pc' = "idle") =>
              /\ exit_code' \in { 0, 1 }
              /\ exit_code' = 0 => ics' \in WholeCalendars
              /\ (exit_code' = 1 /\ last' # FileWriteError) => ics' = ics
      ]_vars

\* A run ended with status 1 without a write error, and the file of an
\* earlier run is still there with its events, while the store has a
\* dated, included record that the file does not show.
C19_Witness ==
    /\ pc = "idle" /\ exit_code = 1 /\ last = NoLog
    /\ EventsOf(ics) # {}
    /\ \E r \in StoredView :
          /\ r.included /\ r.start_date # NoDate /\ r.series_id = "S1"
          /\ \A e \in EventsOf(ics) : e.name # << Series(r.series_id).name, r.year >>

\* C18: lookup validity.  An answer whose start is after its end, whose
\* start date lies in another year than its year, or which has an end date
\* and no start date, is rejected: fetch raises, the merge is not reached
\* and the store is untouched.  An accepted answer with a start date and no
\* end date becomes a lookup whose end date is its start date.
Iterated == h.phase = "iterated"
Fetched == h.fetched[1]
StartAfterEnd(raw) ==
    raw.start_date # NoDate /\ raw.end_date # NoDate /\ raw.start_date > raw.end_date
StartInOtherYear(raw) == raw.start_date # NoDate /\ YearOf(raw.start_date) # raw.year
EndWithoutStart(raw) == raw.start_date = NoDate /\ raw.end_date # NoDate

C18_LookupValidity ==
    Iterated =>
        /\ (StartAfterEnd(h.raw) \/ StartInOtherYear(h.raw) \/ EndWithoutStart(h.raw)) =>
              /\ Fetched.raised
              /\ last.error = "LLMError" /\ last.lookup_year = NoYear
              /\ occurrences = {}
        /\ (~Fetched.raised /\ h.raw.start_date # NoDate /\ h.raw.end_date = NoDate) =>
              /\ Fetched.value.start_date = h.raw.start_date
              /\ Fetched.value.end_date = h.raw.start_date

\* An answer with start on or before end, but with the start in the year
\* after the answer's year, was rejected and nothing was stored.
C18_Witness ==
    /\ Iterated
    /\ StartInOtherYear(h.raw) /\ ~StartAfterEnd(h.raw) /\ ~EndWithoutStart(h.raw)
    /\ Fetched.raised
    /\ last.error = "LLMError"
    /\ occurrences = {}

\* C20: with a non-empty allowed list, filter_events returns exactly one
\* event for each distinct (ticker, fiscal year or else calendar year,
\* quarter) among the events whose ticker is allowed, tickers compared in
\* upper case and stripped, blank allowed entries ignored; no event of
\* another ticker is returned, and events that differ in the year only are
\* both returned.
Filtered == h.phase = "filtered"
Elements(seq) == { seq[i] : i \in 1 .. Len(seq) }
Normal(ticker) == upper(strip(ticker))
AllowedTickers == { Normal(a) : a \in { x \in Elements(h.allowed) : strip(x) # << >> } }
KeyOf(ev) ==
    << Normal(ev.ticker),
       IF ev.fiscal_year # NoFiscalYear THEN ev.fiscal_year ELSE YearOf(ev.date),
       ev.quarter >>
Eligible == { ev \in Elements(h.events) : Normal(ev.ticker) \in AllowedTickers }

StrictlyPast(x, today) ==
    \/ x.end_date # NoDate /\ x.end_date < today
    \/ x.end_date = NoDate /\ x.start_date # NoDate /\ x.start_date < today

C22_IsPastExact ==
    (Returned /\ MatchingYear) =>
        /\ is_past(IncomingOccurrence(Series(h.series_id), h.lookup), h.reference_date)
             <=> StrictlyPast(h.lookup, h.reference_date)
        /\ h.existing # Absent =>
             (is_past(OccurrenceOf(Series(h.series_id), h.existing[1]), h.reference_date)
                <=> StrictlyPast(h.existing[1], h.reference_date))
        /\ HSkipped <=> /\ h.existing # Absent
                        /\ StrictlyPast(h.existing[1], h.reference_date)
                        /\ StrictlyPast(h.lookup, h.reference_date)
        /\ HSkipped => Result = Return(h.existing[1])

\* The stored record ends on the reference date itself and the lookup ended
\* before it: the merge is not skipped, and the record returned has the
\* lookup's dates.
C22_Witness ==
    /\ Returned /\ MatchingYear /\ h.existing # Absent
    /\ h.existing[1].end_date = h.reference_date
    /\ h.lookup.end_date # NoDate /\ h.lookup.end_date < h.reference_date
    /\ ~HSkipped
    /\ Result.value.end_date = h.lookup.end_date
    /\ Result.value # h.existing[1]

\* C28: the merge of a lookup with the record that the merge of the same
\* lookup returned, on the same reference date, returns that record again.
Repolled == h.phase = "repolled"

C28_ReconcileFixedPoint == Repolled => h.again = h.result

\* The first merge changed the stored record, the second left it alone.
C28_Witness ==
    /\ Repolled /\ h.existing # Absent
    /\ Result.value # h.existing[1]
    /\ h.again = Some(Return(Result.value))

\* C26: in a store that started empty, every record has a start date and an
\* end date or neither, and a dated record starts on or before its end, in
\* the year of the record.
C26_StoredDatesValid ==
    \A r \in StoredView :
        /\ r.start_date = NoDate <=> r.end_date = NoDate
        /\ r.start_date # NoDate =>
              /\ r.start_date <= r.end_date
              /\ YearOf(r.start_date) = r.year

\* The store holds a dated record whose latest answer had no dates, and an
\* included record that never had any.
C26_Witness ==
    /\ \E r \in StoredView : r.start_date # NoDate /\ ~r.confident
    /\ \E r \in StoredView : r.start_date = NoDate /\ r.included

\* C29: the occurrences handed to the rendering have pairwise different
\* (series id, year), and the events of the calendar file pairwise different
\* UIDs.
C29_UniqueKeysAndUids ==
    /\ \A a \in calendar_occurrences, b \in calendar_occurrences :
          (a.series.id = b.series.id /\ a.year = b.year) => a = b
    /\ ics # Absent => \A a \in ics[1], b \in ics[1] : a.uid = b.uid => a = b

\* A calendar of three events was written: two years of one series and the
\* other series, from a store in which a record has been written over.
C29_Witness ==
    /\ pc = "idle" /\ exit_code = 0
    /\ ics # Absent /\ Cardinality(ics[1]) >= 3
    /\ \E a \in ics[1], b \in ics[1] : a # b /\ a.name[1] = b.name[1]
    /\ \E r \in StoredView : r.start_date # NoDate /\ ~r.confident /\ r.included

\* C23: an iteration changes the rows of no other key than its own; and in
\* every state of a run, every key's row is the one the run found, or the
\* complete record that the merge of an accepted lookup with the row the
\* run found returns; a key the run has not reached has the row the run
\* found.
StoredOf(table, k) ==
    IF RowsOf(table, k) = {} THEN Absent
    ELSE Some(_row_to_occurrence(CHOOSE r \in RowsOf(table, k) : TRUE))

Reconciled(k, lookup, stored) ==
    _merge_occurrence(Series(k[1]), lookup, stored, reference_date, k[2])

AcceptedLookups(k) ==
    { LookupResult(raw).value :
        raw \in { x \in AgentOutputs(k[1], k[2], TRUE) : LookupResult(x).ok } }

C23_PreRunOrReconciled ==
    \A k \in Keys :
        /\ \/ RowsOf(occurrences, k) = RowsOf(h.before, k)
           \/ \E lookup \in AcceptedLookups(k) :
                 LET merged == Reconciled(k, lookup, StoredOf(h.before, k))
                 IN  /\ ~merged.raised
                     /\ RowsOf(occurrences, k) = { RowOf(merged.value) }
        /\ (pc \in { "loop", "render" } /\ attempts[k] = 0)
              => RowsOf(occurrences, k) = RowsOf(h.before, k)

C23_IndependentUpserts ==
    /\ []C23_PreRunOrReconciled
    /\ [][ /\ IterationStep =>
                \A k \in Keys \ { PairKey(pos) } :
                    RowsOf(occurrences', k) = RowsOf(occurrences, k)
           /\ ~IterationStep => occurrences' = occurrences
       ]_vars

\* In the middle of a run over two series: the first key has been written
\* over, the second failed and has the row the run found, the keys of the
\* second series are still to come and one of them has a row from an
\* earlier run.
C23_Witness ==
    /\ pc = "loop" /\ NPairs = 4 /\ pos = 3
    /\ last.error # ""
    /\ RowsOf(h.before, PairKey(1)) # {}
    /\ RowsOf(occurrences, PairKey(1)) # RowsOf(h.before, PairKey(1))
    /\ RowsOf(occurrences, PairKey(2)) = RowsOf(h.before, PairKey(2))
    /\ RowsOf(occurrences, PairKey(3)) # {}

C27_IncludedWasVouched ==
    \A r \in StoredView : r.included => RecordKey(r) \in h.vouched

C27_InclusionHasACause ==
    /\ []C27_IncludedWasVouched
    /\ [][ (IterationStep /\ last'.error = "") =>
              \A new \in RowsOf(occurrences', PairKey(pos)) :
                  (new.included = 1 /\ new.confident = 0 /\ new.confirmed = 0) =>
                      \E old \in RowsOf(occurrences, PairKey(pos)) :
                          /\ old.included = 1
                          /\ new = old \/ ~Vouches(h'.lookup)
       ]_vars

\* A record is included with both flags false, beside a record that has
\* been written and is not included.
C27_Witness ==
    /\ \E r \in StoredView : r.included /\ ~r.confident /\ ~r.confirmed
    /\ \E r \in StoredView : ~r.included /\ RecordKey(r) \notin h.vouched

\* C25: fetch calls the agent at most three times for one (series, year);
\* it returns the outcome of the first attempt that succeeds and makes no
\* attempt after it; it raises LLMError when three attempts have failed, and
\* only then; and it always comes to an end.
FetchDone == h.phase \in { "returned", "raised" }
Calls == Len(h.outcomes)
FailedBefore(n) == \A i \in 1 .. (n - 1) : h.outcomes[i].raised

C25_Bounded ==
    /\ Calls <= 3
    /\ h.phase = "calling" => Calls < 3 /\ FailedBefore(Calls + 1)
    /\ h.phase = "returned" =>
          /\ Calls >= 1 /\ FailedBefore(Calls)
          /\ ~h.outcomes[Calls].raised
          /\ h.result = h.outcomes[Calls]
    /\ h.phase = "raised" =>
          /\ Calls = 3 /\ FailedBefore(4)
          /\ h.result = Raise("LLMError")

C25_BoundedRetry ==
    /\ []C25_Bounded
    /\ [][ FetchDone => h' = h ]_vars
    /\ <>FetchDone

\* The third attempt succeeded after two that failed.
C25_Witness ==
    /\ h.phase = "returned" /\ Calls = 3
    /\ h.outcomes[1].raised /\ h.outcomes[2].raised
    /\ h.result.value.confident

\* C30: when the with statement over a Database is left, by the end of its
\* body or by an exception, the connection is closed first and then the
\* backend's finalize() is called, once, also when closing the connection
\* failed; a WebDAV finalize() uploads only with a local path from
\* prepare(), and afterwards the temporary directory is gone whether the
\* upload succeeded, failed or was not reached.
Count(calls, name) == Cardinality({ i \in 1 .. Len(calls) : calls[i] = name })
IndexOf(calls, name) == CHOOSE i \in 1 .. Len(calls) : calls[i] = name
Exited == h.phase = "exited"

C30_CloseThenFinalizeOnce ==
    Exited =>
        /\ Count(h.calls, "conn.close") = 1
        /\ Count(h.calls, "finalize") = 1
        /\ h.calls[1] = "conn.close"
        /\ IndexOf(h.calls, "conn.close") < IndexOf(h.calls, "finalize")
        /\ h.conn \in { "closed", "close_failed" }
        /\ h.conn = "close_failed" <=> Count(h.calls, "db_close_failed") = 1
        /\ Count(h.calls, "_upload") <= 1
        /\ Count(h.calls, "_upload") = 1 => (h.b.scheme = "webdav" /\ h.b._local_path)
        /\ h.b.scheme = "webdav" => (~h.b.temp_exists /\ ~h.b._temp_dir)

C30_ExitRunsClose ==
    /\ []C30_CloseThenFinalizeOnce
    /\ [][ h.phase = "leaving" => h'.phase = "exited" ]_vars

\* The body raised, closing the connection failed and so did the upload:
\* finalize() was called all the same and the temporary directory is gone.
C30_Witness ==
    /\ Exited /\ h.b.scheme = "webdav"
    /\ h.conn = "close_failed"
    /\ Count(h.calls, "_upload") = 1
    /\ h.raised = "StorageError"
    /\ h.b.remote # Some(h.b.local)
    /\ ~h.b.temp_exists

\* C21: the events that a run of the earnings command hands to the calendar
\* are exactly the events last saved, in this run or an earlier one, for
\* the keys (ticker, fiscal year, quarter) whose fiscal year is at or after
\* current year - retention years, one per key, whether or not the latest
\* fetch had the key; each carries the date and the estimates of the last
\* run that saved its key; and the calendar file written has one event for
\* each of them.
InWindow == { e \in h.saved : event_year(e) >= h.current_year - h.retention_years }
Listed == h.phase = "listed"

C21_CalendarIsHistory ==
    Listed =>
        /\ h.calendar_events = InWindow
        /\ \A a \in h.calendar_events, b \in h.calendar_events :
              SavedKey(a) = SavedKey(b) => a = b
        /\ \A i \in 1 .. Len(h.selected_events) :
              event_year(h.selected_events[i]) >= h.current_year - h.retention_years
                  => h.selected_events[i] \in h.calendar_events

C21_HistoryRetained ==
    /\ []C21_CalendarIsHistory
    /\ [][ (Listed /\ h'.exit_code = 0) =>
              /\ h'.ics = Some({ make_all_day_event(e, DEFAULT_EARNINGS_RELCALID) :
                                   e \in InWindow })
              /\ Cardinality(h'.ics[1]) = Cardinality(InWindow)
       ]_vars

\* The calendar holds an event of a key that the latest fetch did not have,
\* beside one that it had, and a key saved earlier has left the window.
C21_Witness ==
    /\ Listed
    /\ \E e \in h.calendar_events :
          SavedKey(e) \notin { SavedKey(x) : x \in Elems(h.selected_events) }
    /\ \E e \in h.calendar_events : e \in Elems(h.selected_events)
    /\ \E e \in h.saved : e \notin h.calendar_events

====
